---- MODULE Spec2Model ----
(***************************************************************************)
(* Model of fix_migrations.py: the three text fixers (fix_create_index,    *)
(* fix_create_policy, fix_create_trigger), the per-file driver             *)
(* fix_migration_file and the batch loop of main.                          *)
(*                                                                         *)
(* Text is a sequence of lexemes.  A lexeme is a maximal piece of text the *)
(* regular expressions of the program never split: an upper-case keyword,  *)
(* a lower-case identifier piece, a blank, a double quote, a dot, a        *)
(* semicolon or a newline.  No lexeme of the alphabet occurs inside        *)
(* another one or across the border of two others, so matching a regular   *)
(* expression or a substring on characters is the same as matching it on   *)
(* lexemes.  An identifier such as n_v2 is the two lexemes "n" "_v2", so   *)
(* that n is a proper prefix of it, as it is on characters.                *)
(***************************************************************************)
EXTENDS Integers, Sequences, FiniteSets, TLC

VARIABLES pc, content, original_content, calls,
          kind, lines, i, fixed_lines,
          disk, pos, fixed_count, console, reads, writes

vars == <<pc, content, original_content, calls, kind, lines, i, fixed_lines,
          disk, pos, fixed_count, console, reads, writes>>

\* ------------------------------------------------------------------ lexemes

NL == "\n"
SP == " "
QUOTE == "\""

\* \w : letters, digits and underscore
WordLex == {"CREATE", "INDEX", "IF", "NOT", "EXISTS", "POLICY", "TRIGGER",
            "DROP", "ON", "p", "q", "t", "u", "n", "_v2", "x"}

\* \s
SpaceLex == {SP, NL}

\* [\w.]
TableLex == WordLex \cup {"."}

Alphabet == WordLex \cup {SP, QUOTE, ".", ";", NL}

\* [^"]
NotQuoteLex == Alphabet \ {QUOTE}

\* the literal lit occurs in s at position k (1-based)
LitAt(s, k, lit) ==
    /\ k >= 1
    /\ k + Len(lit) - 1 <= Len(s)
    /\ SubSeq(s, k, k + Len(lit) - 1) = lit

\* length of the longest run of lexemes of S in s from position k on: what a
\* greedy X+ or X* consumes when what follows it in the pattern cannot start
\* with a lexeme of S, or nothing follows it
RunLen(s, k, S) ==
    IF k > Len(s) THEN 0
    ELSE LET last == CHOOSE e \in (k - 1)..Len(s) :
                         /\ \A j \in k..e : s[j] \in S
                         /\ (e = Len(s) \/ s[e + 1] \notin S)
         IN  last - k + 1

Min(S) == CHOOSE m \in S : \A o \in S : m <= o

\* `sub in s` of Python, on lexemes
Contains(s, sub) == \E k \in 1..(Len(s) + 1) : LitAt(s, k, sub)

RECURSIVE Flatten(_, _)
Flatten(seqs, sep) ==
    IF seqs = <<>> THEN <<>>
    ELSE IF Len(seqs) = 1 THEN seqs[1]
    ELSE seqs[1] \o sep \o Flatten(Tail(seqs), sep)

\* '\n'.join(ls)
join(ls) == Flatten(ls, <<NL>>)

\* s.split('\n'): always at least one line, the empty text gives one empty
\* line; line j runs from after newline j - 1 to before newline j
split(s) ==
    LET nls    == {k \in 1..Len(s) : s[k] = NL}
        nth(j) == CHOOSE k \in nls : Cardinality({m \in nls : m < k}) = j - 1
        n      == Cardinality(nls) + 1
    IN  [j \in 1..n |->
            SubSeq(s, IF j = 1 THEN 1 ELSE nth(j - 1) + 1,
                      IF j = n THEN Len(s) ELSE nth(j) - 1)]

\* ------------------------------------------------------- fix_create_index

CreateIndexLit == <<"CREATE", SP, "INDEX", SP>>
IfNotExistsLit == <<"IF", SP, "NOT", SP, "EXISTS">>

\* length of the match of  CREATE INDEX (?!IF NOT EXISTS)(\w+)  at k, 0 if none
IndexMatchLen(s, k) ==
    IF /\ LitAt(s, k, CreateIndexLit)
       /\ ~LitAt(s, k + Len(CreateIndexLit), IfNotExistsLit)
       /\ RunLen(s, k + Len(CreateIndexLit), WordLex) > 0
    THEN Len(CreateIndexLit) + RunLen(s, k + Len(CreateIndexLit), WordLex)
    ELSE 0

\* re.sub: leftmost matches, left to right, never overlapping; the text
\* between the matches is copied.  From position k the scan goes to the first
\* position m where the pattern matches, and on from the end of that match
RECURSIVE re_sub_index(_, _)
re_sub_index(s, k) ==
    LET ms == {m \in k..Len(s) : IndexMatchLen(s, m) > 0}
    IN  IF ms = {} THEN SubSeq(s, k, Len(s))
        ELSE LET m == Min(ms)
                 n == IndexMatchLen(s, m)
             IN  SubSeq(s, k, m - 1)
                   \o CreateIndexLit \o IfNotExistsLit \o <<SP>>
                   \o SubSeq(s, m + Len(CreateIndexLit), m + n - 1)
                   \o re_sub_index(s, m + n)

fix_create_index(c) == re_sub_index(c, 1)

\* ------------------------------------------- patterns of the line fixers

\* a failed match, and the empty text: both are false in an `if`
None == <<>>

CreatePolicyLit == <<"CREATE", SP, "POLICY">>
CreateTriggerLit == <<"CREATE", SP, "TRIGGER">>

\* group 1 of  CREATE POLICY\s+"([^"]+)"  matched at k
PolicyAt(s, k) ==
    LET a  == k + Len(CreatePolicyLit)
        ns == RunLen(s, a, SpaceLex)
        q  == a + ns
        nn == RunLen(s, q + 1, NotQuoteLex)
    IN  IF /\ LitAt(s, k, CreatePolicyLit)
           /\ ns > 0
           /\ q <= Len(s) /\ s[q] = QUOTE
           /\ nn > 0
           /\ q + nn + 1 <= Len(s) /\ s[q + nn + 1] = QUOTE
        THEN SubSeq(s, q + 1, q + nn)
        ELSE None

\* group 1 of  CREATE TRIGGER\s+(\w+)  matched at k
TriggerAt(s, k) ==
    LET a  == k + Len(CreateTriggerLit)
        ns == RunLen(s, a, SpaceLex)
        nn == RunLen(s, a + ns, WordLex)
    IN  IF LitAt(s, k, CreateTriggerLit) /\ ns > 0 /\ nn > 0
        THEN SubSeq(s, a + ns, a + ns + nn - 1)
        ELSE None

\* group 1 of  ON\s+([\w.]+)  matched at k
OnTableAt(s, k) ==
    LET ns == RunLen(s, k + 1, SpaceLex)
        nn == RunLen(s, k + 1 + ns, TableLex)
    IN  IF LitAt(s, k, <<"ON">>) /\ ns > 0 /\ nn > 0
        THEN SubSeq(s, k + 1 + ns, k + ns + nn)
        ELSE None

\* re.match(r'^\s*CREATE POLICY\s+"([^"]+)"', line): blanks are skipped,
\* then the pattern must match there
PolicyLineStart(s) == PolicyAt(s, 1 + RunLen(s, 1, SpaceLex))

\* re.search(r'CREATE POLICY\s+"([^"]+)"', line): the leftmost match
policy_match(s) ==
    LET ks == {k \in 1..Len(s) : PolicyAt(s, k) # None}
    IN  IF ks = {} THEN None ELSE PolicyAt(s, Min(ks))

\* re.match(r'^\s*CREATE TRIGGER\s+(\w+)', line)
TriggerLineStart(s) == TriggerAt(s, 1 + RunLen(s, 1, SpaceLex))

\* re.search(r'CREATE TRIGGER\s+(\w+)', line)
trigger_match(s) ==
    LET ks == {k \in 1..Len(s) : TriggerAt(s, k) # None}
    IN  IF ks = {} THEN None ELSE TriggerAt(s, Min(ks))

\* re.search(r'ON\s+([\w.]+)', lines[j])
table_match(s) ==
    LET ks == {k \in 1..Len(s) : OnTableAt(s, k) # None}
    IN  IF ks = {} THEN None ELSE OnTableAt(s, Min(ks))

\* a look-ahead one line too long
WindowOneMore == 5 + 1

\* the look-ahead of range(i, min(i + 5, len(lines)))
Window == 5

\* the look-ahead loop: group 1 of the first line of the window, from index
\* idx (0-based) on, that holds an ON <table>; None when no line does
table_name(ls, idx) ==
    LET stop == IF idx + Window < Len(ls) THEN idx + Window ELSE Len(ls)
        js   == {j \in idx..(stop - 1) : table_match(ls[j + 1]) # None}
    IN  IF js = {} THEN None ELSE table_match(ls[Min(js) + 1])

PolicyDropPrefix(name) ==
    <<"DROP", SP, "POLICY", SP, "IF", SP, "EXISTS", SP, QUOTE>> \o name \o <<QUOTE>>

TriggerDropPrefix(name) ==
    <<"DROP", SP, "TRIGGER", SP, "IF", SP, "EXISTS", SP>> \o name

policy_drop_line(name, table) ==
    PolicyDropPrefix(name) \o <<SP, "ON", SP>> \o table \o <<";">>

trigger_drop_line(name, table) ==
    TriggerDropPrefix(name) \o <<SP, "ON", SP>> \o table \o <<";">>

\* the check of the line before left out
has_drop_never(ls, idx, prefix) == FALSE

\* has_drop: the line before line idx (0-based) holds the text prefix
has_drop(ls, idx, prefix) == idx > 0 /\ Contains(ls[idx], prefix)

\* ------------------------------------------------------ fix_create_policy

\* one pass of the while loop on line idx (0-based): the new fixed_lines
policy_step(ls, idx, fixed) ==
    LET line        == ls[idx + 1]
        policy_name == policy_match(line)
        table       == table_name(ls, idx)
        guard       ==
            IF /\ PolicyLineStart(line) # None
               /\ policy_name # None
               /\ table # None
               /\ ~has_drop(ls, idx, PolicyDropPrefix(policy_name))
            THEN <<policy_drop_line(policy_name, table)>>
            ELSE <<>>
    IN  fixed \o guard \o <<line>>

RECURSIVE policy_loop(_, _, _)
policy_loop(ls, idx, fixed) ==
    IF idx < Len(ls) THEN policy_loop(ls, idx + 1, policy_step(ls, idx, fixed))
    ELSE fixed

fix_create_policy(c) == join(policy_loop(split(c), 0, <<>>))

\* ----------------------------------------------------- fix_create_trigger

\* the guard put after the statement instead of before it
trigger_step_guard_after(ls, idx, fixed) ==
    LET line         == ls[idx + 1]
        trigger_name == trigger_match(line)
        table        == table_name(ls, idx)
        guard        ==
            IF /\ TriggerLineStart(line) # None
               /\ trigger_name # None
               /\ table # None
               /\ ~has_drop(ls, idx, TriggerDropPrefix(trigger_name))
            THEN <<trigger_drop_line(trigger_name, table)>>
            ELSE <<>>
    IN  fixed \o <<line>> \o guard

trigger_step(ls, idx, fixed) ==
    LET line         == ls[idx + 1]
        trigger_name == trigger_match(line)
        table        == table_name(ls, idx)
        guard        ==
            IF /\ TriggerLineStart(line) # None
               /\ trigger_name # None
               /\ table # None
               /\ ~has_drop(ls, idx, TriggerDropPrefix(trigger_name))
            THEN <<trigger_drop_line(trigger_name, table)>>
            ELSE <<>>
    IN  fixed \o guard \o <<line>>

RECURSIVE trigger_loop(_, _, _)
trigger_loop(ls, idx, fixed) ==
    IF idx < Len(ls) THEN trigger_loop(ls, idx + 1, trigger_step(ls, idx, fixed))
    ELSE fixed

fix_create_trigger(c) == join(trigger_loop(split(c), 0, <<>>))

\* ------------------------------------------------------------ input texts

\* longest file, in lines, built from the full set of lines of a fixer
MaxLines == 3
\* longest file, in lines, built from the lines that decide the look-ahead
MaxLongLines == 6
\* longest line of an index file, in pieces
MaxPieces == 3
\* calls of the same function on its own result
MaxCalls == 2

SeqsOf(S, lo, hi) == UNION {[1..m -> S] : m \in lo..hi}

PolicyLines ==
    { <<"CREATE", SP, "POLICY", SP, QUOTE, "p", QUOTE>>,
      <<"CREATE", SP, "POLICY", SP, QUOTE, "p", QUOTE, SP, "ON", SP, "t">>,
      <<SP, "CREATE", SP, "POLICY", SP, SP, QUOTE, "q", SP, "x", QUOTE, SP, "ON", SP, "u", ".", "t">>,
      <<"x", SP, "CREATE", SP, "POLICY", SP, QUOTE, "p", QUOTE, SP, "ON", SP, "t">>,
      <<"DROP", SP, "POLICY", SP, "IF", SP, "EXISTS", SP, QUOTE, "p", QUOTE, SP, "ON", SP, "t", ";">>,
      <<"DROP", SP, "POLICY", SP, "IF", SP, "EXISTS", SP, QUOTE, "p", QUOTE, SP, "ON", SP, "u", ";">>,
      <<"x", SP, "ON", SP, "u">>,
      <<"x", ";">> }

PolicyLongLines ==
    { <<"CREATE", SP, "POLICY", SP, QUOTE, "p", QUOTE>>,
      <<"x", SP, "ON", SP, "u">>,
      <<"x", ";">> }

TriggerLines ==
    { <<"CREATE", SP, "TRIGGER", SP, "n">>,
      <<"CREATE", SP, "TRIGGER", SP, "n", SP, "ON", SP, "t">>,
      <<SP, "CREATE", SP, "TRIGGER", SP, SP, "n", "_v2", SP, "ON", SP, "u", ".", "t">>,
      <<"x", SP, "CREATE", SP, "TRIGGER", SP, "n", SP, "ON", SP, "t">>,
      <<"x", SP, "ON">>,
      <<"DROP", SP, "TRIGGER", SP, "IF", SP, "EXISTS", SP, "n", "_v2", SP, "ON", SP, "u", ".", "t", ";">>,
      <<"x", SP, "ON", SP, "u">>,
      <<"x", ";">> }

TriggerLongLines ==
    { <<"CREATE", SP, "TRIGGER", SP, "n">>,
      <<"x", SP, "ON", SP, "u">>,
      <<"x", ";">> }

FilesOf(full, long) ==
    {join(ls) : ls \in SeqsOf(full, 0, MaxLines)
                      \cup SeqsOf(long, MaxLines + 1, MaxLongLines)}

KindInputs(kd) ==
    IF kd = "policy" THEN FilesOf(PolicyLines, PolicyLongLines)
    ELSE FilesOf(TriggerLines, TriggerLongLines)

IndexPieces ==
    { CreateIndexLit, IfNotExistsLit \o <<SP>>, <<"IF", SP>>, <<"x">>,
      <<"x", SP, "ON", SP, "t", ";">>, <<NL>> }

IndexInputs == {Flatten(ps, <<>>) : ps \in SeqsOf(IndexPieces, 0, MaxPieces)}

\* ------------------------------------------------ the line fixers, stepwise

Idle ==
    /\ disk = <<>> /\ pos = 0 /\ fixed_count = 0
    /\ console = <<>> /\ reads = <<>> /\ writes = <<>>

InitLines ==
    /\ kind \in {"policy", "trigger"}
    /\ content \in KindInputs(kind)
    /\ original_content = content
    /\ pc = "call"
    /\ calls = 0
    /\ lines = <<>> /\ i = 0 /\ fixed_lines = <<>>
    /\ Idle

\* lines = content.split('\n'); fixed_lines = []; i = 0
Enter ==
    /\ pc = "call"
    /\ lines' = split(content)
    /\ fixed_lines' = <<>>
    /\ i' = 0
    /\ pc' = "loop"
    /\ UNCHANGED <<content, original_content, calls, kind,
                   disk, pos, fixed_count, console, reads, writes>>

\* one pass of the while loop of fix_create_policy
PolicyIter ==
    /\ pc = "loop" /\ kind = "policy"
    /\ i < Len(lines)
    /\ fixed_lines' = policy_step(lines, i, fixed_lines)
    /\ i' = i + 1
    /\ UNCHANGED <<pc, content, original_content, calls, kind, lines,
                   disk, pos, fixed_count, console, reads, writes>>

\* one pass of the while loop of fix_create_trigger
TriggerIter ==
    /\ pc = "loop" /\ kind = "trigger"
    /\ i < Len(lines)
    /\ fixed_lines' = trigger_step(lines, i, fixed_lines)
    /\ i' = i + 1
    /\ UNCHANGED <<pc, content, original_content, calls, kind, lines,
                   disk, pos, fixed_count, console, reads, writes>>

\* return '\n'.join(fixed_lines)
Return ==
    /\ pc = "loop"
    /\ ~(i < Len(lines))
    /\ content' = join(fixed_lines)
    /\ pc' = "done"
    /\ calls' = calls + 1
    /\ UNCHANGED <<original_content, kind, lines, i, fixed_lines,
                   disk, pos, fixed_count, console, reads, writes>>

NextLines == Enter \/ PolicyIter \/ TriggerIter \/ Return

SpecLines == InitLines /\ [][NextLines]_vars

\* ------------------------------------------- fix_create_index on its result

InitIndex ==
    /\ content \in IndexInputs
    /\ original_content = content
    /\ pc = "call"
    /\ calls = 0
    /\ kind = "index"
    /\ lines = <<>> /\ i = 0 /\ fixed_lines = <<>>
    /\ Idle

\* content = fix_create_index(content); the argument is kept
CallIndex ==
    /\ pc = "call" /\ kind = "index"
    /\ calls < MaxCalls
    /\ original_content' = content
    /\ content' = fix_create_index(content)
    /\ calls' = calls + 1
    /\ UNCHANGED <<pc, kind, lines, i, fixed_lines,
                   disk, pos, fixed_count, console, reads, writes>>

NextIndex == CallIndex

SpecIndex == InitIndex /\ [][NextIndex]_vars

\* ----------------------------------------------------- fix_migration_file

\* content = fix_create_index(content); content = fix_create_policy(content);
\* content = fix_create_trigger(content)
apply_fixes(c) == fix_create_trigger(fix_create_policy(fix_create_index(c)))

\* the comparison left out: every file is written back
changed_always(fixed, original) == TRUE

\* if content != original_content
changed(fixed, original) == fixed # original

\* every file that exists is counted
count_after_always(ret, n) == n + 1

\* the value of  fixed_count  after  if fix_migration_file(filepath): fixed_count += 1
count_after(ret, n) == IF ret THEN n + 1 ELSE n

\* the effect of fix_migration_file(name) on the disk, the console and the
\* record of the files opened; ret is the value returned
fix_migration_file(name, ret) ==
    /\ reads' = Append(reads, name)
    /\ original_content' = disk[name]
    /\ content' = apply_fixes(disk[name])
    /\ ret = changed(content', original_content')
    /\ IF ret
       THEN /\ writes' = Append(writes, name)
            /\ disk' = [disk EXCEPT ![name] = content']
            /\ console' = console \o <<<<"Fixing", name>>, <<"Fixed", name>>>>
       ELSE /\ writes' = writes
            /\ disk' = disk
            /\ console' = console \o <<<<"Fixing", name>>, <<"NoChange", name>>>>

\* --------------------------------------------------------------------- main

migrations_to_fix ==
    << "00003_brand_brain_schema.sql",
       "00004_rate_limiting.sql",
       "00006_post_generator_schema.sql",
       "00007_engagement_agent.sql",
       "00008_engagement_agent_schema.sql",
       "00009_payment_subscription_schema.sql",
       "00010_social_scheduler_schema.sql",
       "00011_free_tier_initialization.sql" >>

FileNames == {migrations_to_fix[j] : j \in 1..Len(migrations_to_fix)}

\* what a migration file may hold when the run starts: a text no fixer
\* changes, and a text every fixer changes
FileContents ==
    { <<"CREATE", SP, "INDEX", SP, "IF", SP, "NOT", SP, "EXISTS", SP, "x", SP,
        "ON", SP, "t", ";", NL, "x", ";">>,
      <<"CREATE", SP, "INDEX", SP, "x", SP, "ON", SP, "t", ";", NL,
        "CREATE", SP, "POLICY", SP, QUOTE, "p", QUOTE, SP, "ON", SP, "t", NL,
        "CREATE", SP, "TRIGGER", SP, "n", NL,
        "x", SP, "ON", SP, "u", ";">> }

InitMain ==
    /\ disk \in UNION {[S -> FileContents] : S \in SUBSET FileNames}
    /\ pos = 0
    /\ fixed_count = 0
    /\ console = <<>> /\ reads = <<>> /\ writes = <<>>
    /\ pc = "main"
    /\ kind = "main"
    /\ content = <<>> /\ original_content = <<>>
    /\ calls = 0
    /\ lines = <<>> /\ i = 0 /\ fixed_lines = <<>>

\* one pass of the for loop on a file that exists
IterExists ==
    /\ pc = "main"
    /\ pos < Len(migrations_to_fix)
    /\ migrations_to_fix[pos + 1] \in DOMAIN disk
    /\ \E ret \in BOOLEAN :
          /\ fix_migration_file(migrations_to_fix[pos + 1], ret)
          /\ fixed_count' = count_after(ret, fixed_count)
    /\ pos' = pos + 1
    /\ calls' = calls + 1
    /\ UNCHANGED <<pc, kind, lines, i, fixed_lines>>

\* the missing file raises and the run ends there
IterMissingRaises ==
    /\ pc = "main"
    /\ pos < Len(migrations_to_fix)
    /\ migrations_to_fix[pos + 1] \notin DOMAIN disk
    /\ pc' = "raised"
    /\ UNCHANGED <<kind, content, original_content, calls, lines, i, fixed_lines,
                   disk, pos, fixed_count, console, reads, writes>>

\* one pass of the for loop on a file that does not exist
IterMissing ==
    /\ pc = "main"
    /\ pos < Len(migrations_to_fix)
    /\ migrations_to_fix[pos + 1] \notin DOMAIN disk
    /\ console' = Append(console, <<"NotFound", migrations_to_fix[pos + 1]>>)
    /\ pos' = pos + 1
    /\ UNCHANGED <<pc, kind, content, original_content, calls, lines, i,
                   fixed_lines, disk, fixed_count, reads, writes>>

\* the two closing lines of the run
Summary ==
    /\ pc = "main"
    /\ ~(pos < Len(migrations_to_fix))
    /\ console' = Append(console, <<"Summary", fixed_count>>)
    /\ pc' = "exit"
    /\ UNCHANGED <<kind, content, original_content, calls, lines, i,
                   fixed_lines, disk, pos, fixed_count, reads, writes>>

Next == IterExists \/ IterMissing \/ Summary

Spec == InitMain /\ [][Next]_vars

\* ------------------------------- fix_migration_file, stepwise, called again

TheFile == migrations_to_fix[1]

InitFile ==
    /\ kind \in {"policy", "trigger"}
    /\ disk \in [{TheFile} -> KindInputs(kind)]
    /\ pc = "open"
    /\ content = <<>> /\ original_content = <<>>
    /\ calls = 0
    /\ pos = 0 /\ fixed_count = 0
    /\ console = <<>> /\ reads = <<>> /\ writes = <<>>
    /\ lines = <<>> /\ i = 0 /\ fixed_lines = <<>>

\* content = f.read(); original_content = content
ReadFile ==
    /\ pc = "open"
    /\ calls < MaxCalls
    /\ reads' = Append(reads, TheFile)
    /\ content' = disk[TheFile]
    /\ original_content' = disk[TheFile]
    /\ console' = Append(console, <<"Fixing", TheFile>>)
    /\ pc' = "index"
    /\ UNCHANGED <<calls, kind, lines, i, fixed_lines, disk, pos, fixed_count, writes>>

FixIndex ==
    /\ pc = "index"
    /\ content' = fix_create_index(content)
    /\ pc' = "policy"
    /\ UNCHANGED <<original_content, calls, kind, lines, i, fixed_lines,
                   disk, pos, fixed_count, console, reads, writes>>

FixPolicy ==
    /\ pc = "policy"
    /\ content' = fix_create_policy(content)
    /\ pc' = "trigger"
    /\ UNCHANGED <<original_content, calls, kind, lines, i, fixed_lines,
                   disk, pos, fixed_count, console, reads, writes>>

FixTrigger ==
    /\ pc = "trigger"
    /\ content' = fix_create_trigger(content)
    /\ pc' = "compare"
    /\ UNCHANGED <<original_content, calls, kind, lines, i, fixed_lines,
                   disk, pos, fixed_count, console, reads, writes>>

\* the branch that writes the file back and returns True
WriteBack ==
    /\ pc = "compare"
    /\ changed(content, original_content)
    /\ writes' = Append(writes, TheFile)
    /\ disk' = [disk EXCEPT ![TheFile] = content]
    /\ console' = Append(console, <<"Fixed", TheFile>>)
    /\ calls' = calls + 1
    /\ pc' = "open"
    /\ UNCHANGED <<content, original_content, kind, lines, i, fixed_lines,
                   pos, fixed_count, reads>>

\* the branch that returns False
NoChange ==
    /\ pc = "compare"
    /\ ~changed(content, original_content)
    /\ console' = Append(console, <<"NoChange", TheFile>>)
    /\ calls' = calls + 1
    /\ pc' = "open"
    /\ UNCHANGED <<content, original_content, kind, lines, i, fixed_lines,
                   disk, pos, fixed_count, reads, writes>>

NextFile == ReadFile \/ FixIndex \/ FixPolicy \/ FixTrigger \/ WriteBack \/ NoChange

SpecFile == InitFile /\ [][NextFile]_vars

\* ================================================================ properties

\* the line holds an ON <table>
HasOn(l) == table_match(l) # None

\* the table of the first line holding an ON <table> among line idx (0-based)
\* and the next 4 lines, None when there is none
FirstOnWithin4(ls, idx) ==
    LET js == {j \in idx..(idx + 4) : j < Len(ls) /\ HasOn(ls[j + 1])}
    IN  IF js = {} THEN None ELSE table_match(ls[Min(js) + 1])

\* l is prefix, then ON and a table, then a semicolon
IsGuard(l, prefix) ==
    LET a == Len(prefix) + 4
    IN  /\ LitAt(l, 1, prefix \o <<SP, "ON", SP>>)
        /\ Len(l) > a
        /\ l[Len(l)] = ";"
        /\ \A j \in a..(Len(l) - 1) : l[j] \in TableLex

\* how many lines in a row, ending at position last of ls, equal g
RECURSIVE CopiesBefore(_, _, _)
CopiesBefore(ls, last, g) ==
    IF last >= 1 /\ ls[last] = g THEN 1 + CopiesBefore(ls, last - 1, g) ELSE 0

\* a pass of the loop has just handled line i - 1 (0-based), lines[i]
Handled(kd) == kind = kd /\ pc = "loop" /\ i >= 1

\* a pass of the loop is about to handle line i (0-based), lines[i + 1]
AboutToHandle(kd) == kind = kd /\ pc = "loop" /\ i < Len(lines)

\* C2: every line matching CREATE POLICY "p" at its start whose 5-line window
\* has ON t as its first ON <table> has the line DROP POLICY IF EXISTS "p" ON t;
\* right before it in the output, once, whatever the input line before it was
C2_GuardBeforeEveryPolicy ==
    Handled("policy") =>
        LET line == lines[i]
            p    == PolicyLineStart(line)
            t    == FirstOnWithin4(lines, i - 1)
            n    == Len(fixed_lines)
        IN  (p # None /\ t # None) =>
                /\ n >= 2
                /\ fixed_lines[n] = line
                /\ fixed_lines[n - 1] = policy_drop_line(p, t)
                /\ \/ CopiesBefore(fixed_lines, n - 1, policy_drop_line(p, t)) = 1
                   \/ CopiesBefore(fixed_lines, n - 1, policy_drop_line(p, t))
                        = CopiesBefore(lines, i - 1, policy_drop_line(p, t))

\* C3: a CREATE POLICY line with no ON <table> in the window of that line and
\* the next 4 lines gets no guard and passes through unchanged, also when an
\* ON <table> stands on the 5th line after it; when the first ON <table> of
\* the window stands on the 4th line after it, the statement is guarded: the
\* guard is inserted, unless the line before already holds the DROP text
C3_WindowDecidesGuard ==
    [][ AboutToHandle("policy") =>
          LET line == lines[i + 1]
              p    == PolicyLineStart(line)
              t    == FirstOnWithin4(lines, i)
          IN  /\ (p # None /\ t = None) =>
                    fixed_lines' = Append(fixed_lines, line)
              /\ (/\ p # None
                  /\ i + 4 < Len(lines)
                  /\ HasOn(lines[i + 5])
                  /\ \A j \in (i + 1)..(i + 4) : ~HasOn(lines[j]))
                 => \/ fixed_lines' = fixed_lines \o <<policy_drop_line(p, t), line>>
                    \/ /\ fixed_lines' = Append(fixed_lines, line)
                       /\ i > 0
                       /\ Contains(lines[i], PolicyDropPrefix(p))
      ]_vars

\* a CREATE POLICY line whose only ON <table> stands 5 lines after it has been
\* handled, and no guard was put before it
C3_Witness ==
    /\ Handled("policy")
    /\ i + 5 <= Len(lines)
    /\ PolicyLineStart(lines[i]) # None
    /\ \A j \in i..(i + 4) : ~HasOn(lines[j])
    /\ HasOn(lines[i + 5])
    /\ fixed_lines = SubSeq(lines, 1, i)

\* C4: when the input line right before a CREATE POLICY "p" line is already
\* DROP POLICY IF EXISTS "p" ON t; no second guard is inserted: the pass adds
\* the CREATE POLICY line alone, right after that one guard
C4_NoSecondGuard ==
    [][ AboutToHandle("policy") =>
          LET line == lines[i + 1]
              p    == PolicyLineStart(line)
          IN  (p # None /\ i > 0 /\ IsGuard(lines[i], PolicyDropPrefix(p))) =>
                  /\ fixed_lines' = Append(fixed_lines, line)
                  /\ fixed_lines[Len(fixed_lines)] = lines[i]
      ]_vars

\* a CREATE POLICY line with a table in its window, right after its guard, has
\* been handled
C4_Witness ==
    /\ Handled("policy")
    /\ i >= 2
    /\ PolicyLineStart(lines[i]) # None
    /\ FirstOnWithin4(lines, i - 1) # None
    /\ lines[i - 1] = policy_drop_line(PolicyLineStart(lines[i]),
                                       FirstOnWithin4(lines, i - 1))
    /\ Len(fixed_lines) >= 2
    /\ fixed_lines[Len(fixed_lines) - 1] = lines[i - 1]

\* C8: every line matching CREATE TRIGGER n at its start whose 5-line window
\* has ON t as its first ON <table> has the line DROP TRIGGER IF EXISTS n ON t;
\* right before it in the output, and the insertion is skipped only when the
\* line before is that very guard of trigger n
C8_GuardBeforeEveryTrigger ==
    Handled("trigger") =>
        LET line == lines[i]
            n    == TriggerLineStart(line)
            t    == FirstOnWithin4(lines, i - 1)
            len  == Len(fixed_lines)
        IN  (n # None /\ t # None) =>
                /\ len >= 2
                /\ fixed_lines[len] = line
                /\ fixed_lines[len - 1] = trigger_drop_line(n, t)
                /\ (i >= 2 /\ lines[i - 1] = trigger_drop_line(n, t))
                     \/ CopiesBefore(fixed_lines, len - 1, trigger_drop_line(n, t)) = 1

\* name of the statement a line of the fixer kd creates, None if it creates none
Created(kd, l) ==
    IF kd = "policy" THEN PolicyLineStart(l) ELSE TriggerLineStart(l)

DropPrefix(kd, name) ==
    IF kd = "policy" THEN PolicyDropPrefix(name) ELSE TriggerDropPrefix(name)

\* out is in with guard lines added, each right before a line of in that
\* creates the statement the guard names, and nothing else changed
RECURSIVE OnlyGuardsAdded(_, _, _)
OnlyGuardsAdded(kd, out, in) ==
    IF in = <<>> THEN out = <<>>
    ELSE /\ out # <<>>
         /\ \/ /\ out[1] = in[1]
               /\ OnlyGuardsAdded(kd, Tail(out), Tail(in))
            \/ /\ Len(out) >= 2
               /\ out[2] = in[1]
               /\ Created(kd, in[1]) # None
               /\ IsGuard(out[1], DropPrefix(kd, Created(kd, in[1])))
               /\ OnlyGuardsAdded(kd, Tail(Tail(out)), Tail(in))

\* number of lines among the first n of ls that create a statement
Creates(kd, ls, n) == Cardinality({j \in 1..n : Created(kd, ls[j]) # None})

\* C9: the output of the policy fixer, and of the trigger fixer, is the input
\* lines in their order and unmodified, with guard lines added right before
\* matching CREATE lines and nothing else: as many lines as the input has, plus
\* the guards
C9_OnlyGuardsInserted ==
    (kind \in {"policy", "trigger"} /\ pc \in {"loop", "done"}) =>
        /\ OnlyGuardsAdded(kind, fixed_lines, SubSeq(lines, 1, i))
        /\ Len(fixed_lines) >= i
        /\ Len(fixed_lines) <= i + Creates(kind, lines, i)
        /\ pc = "done" =>
              /\ i = Len(lines)
              /\ lines = split(original_content)
              /\ split(content) = fixed_lines

\* a fixer has returned a text with a guard more than its input of several lines
C9_Witness ==
    /\ kind \in {"policy", "trigger"}
    /\ pc = "done"
    /\ Len(lines) >= 3
    /\ Len(split(content)) > Len(lines)
    /\ \E j \in 2..Len(lines) : Created(kind, lines[j]) # None

\* C1: fix_create_index applied to its own result gives that result back,
\* also when the identifier after CREATE INDEX is a keyword such as CREATE or IF
C1_IndexFixTwice ==
    (kind = "index" /\ calls >= 2) => content = original_content

\* C10: a second run of fix_migration_file on the file it has just processed
\* finds nothing to change: it writes nothing and reports no change
C10_SecondRunWritesNothing ==
    /\ (pc = "compare" /\ calls >= 1) => content = original_content
    /\ Len(writes) <= 1
    /\ calls >= 2 => console[Len(console)] = <<"NoChange", TheFile>>

Range(sq) == {sq[j] : j \in 1..Len(sq)}

Last(sq) == sq[Len(sq)]

\* C5: a file is written back exactly when its text after the index fix, then
\* the policy fix, then the trigger fix differs from the text read; a file the
\* fixers leave unchanged is not opened for writing, is reported as no change
\* and keeps its text on the disk
C5_WriteOnlyIfChanged ==
    [][ (pc = "main" /\ pos < Len(migrations_to_fix)
           /\ migrations_to_fix[pos + 1] \in DOMAIN disk) =>
          LET name   == migrations_to_fix[pos + 1]
              before == disk[name]
              after  == fix_create_trigger(fix_create_policy(fix_create_index(before)))
          IN  /\ reads' = Append(reads, name)
              /\ (writes' # writes) <=> (after # before)
              /\ after # before =>
                    /\ writes' = Append(writes, name)
                    /\ disk' = [disk EXCEPT ![name] = after]
                    /\ Last(console') = <<"Fixed", name>>
              /\ after = before =>
                    /\ writes' = writes
                    /\ disk' = disk
                    /\ Last(console') = <<"NoChange", name>>
      ]_vars

\* a file has been read, found unchanged and not written, after another file
\* was written
C5_Witness ==
    /\ pc = "main"
    /\ pos >= 2
    /\ Last(console) = <<"NoChange", migrations_to_fix[pos]>>
    /\ Last(reads) = migrations_to_fix[pos]
    /\ migrations_to_fix[pos] \notin Range(writes)
    /\ writes # <<>>

IsReport(r) == r[1] # "Fixing"

\* the closing report of each file handled so far, and the summary
Reports == SelectSeq(console, IsReport)

\* C6: a listed file that does not exist is reported as not found and is not
\* read, written or counted; the files after it are handled in the order of
\* the list, and the run never stops before its summary: until then the
\* summary or the pass on a missing file can be taken, or the next file exists
\* (the pass on a file that exists always can: no read or write fails here)
C6_MissingFileDoesNotAbort ==
    /\ pc \in {"main", "exit"}
    /\ \/ pc = "exit"
       \/ ENABLED Summary
       \/ ENABLED IterMissing
       \/ pc = "main" /\ pos < Len(migrations_to_fix)
             /\ migrations_to_fix[pos + 1] \in DOMAIN disk
    /\ Len(Reports) = (IF pc = "exit" THEN pos + 1 ELSE pos)
    /\ \A j \in 1..pos :
          LET name == migrations_to_fix[j]
          IN  /\ Reports[j][2] = name
              /\ name \notin DOMAIN disk =>
                    /\ Reports[j][1] = "NotFound"
                    /\ name \notin Range(reads)
                    /\ name \notin Range(writes)
              /\ name \in DOMAIN disk =>
                    /\ Reports[j][1] \in {"Fixed", "NoChange"}
                    /\ name \in Range(reads)
    /\ fixed_count <= Cardinality({j \in 1..pos : migrations_to_fix[j] \in DOMAIN disk})
    /\ pc = "exit" =>
          /\ pos = Len(migrations_to_fix)
          /\ Last(console)[1] = "Summary"

\* the run has ended although the first file of the list was missing, and a
\* later file was fixed
C6_Witness ==
    /\ pc = "exit"
    /\ migrations_to_fix[1] \notin DOMAIN disk
    /\ migrations_to_fix[Len(migrations_to_fix) - 1] \notin DOMAIN disk
    /\ <<"Fixed", migrations_to_fix[Len(migrations_to_fix)]>> \in Range(console)
    /\ <<"NotFound", migrations_to_fix[1]>> \in Range(console)

\* the files of the disk whose text is not one a run can start with: no text
\* of FileContents is the result of a fix, so these are the files changed
ChangedFiles == {n \in DOMAIN disk : disk[n] \notin FileContents}

\* C7: fixed_count is at every point the number of files written so far, and
\* never more than the number of files handled so far; the total reported at
\* the end is the number of listed files that existed, were changed and were
\* written back
C7_CountIsFilesWritten ==
    /\ fixed_count = Len(writes)
    /\ fixed_count = Cardinality(Range(writes))
    /\ fixed_count <= pos
    /\ Range(writes) = ChangedFiles
    /\ Range(writes) = {n \in FileNames : <<"Fixed", n>> \in Range(console)}
    /\ pc = "exit" => Last(console) = <<"Summary", Cardinality(ChangedFiles)>>

\* the run has ended with some files fixed, some found unchanged and some missing
C7_Witness ==
    /\ pc = "exit"
    /\ fixed_count >= 2
    /\ Len(reads) > fixed_count
    /\ Len(reads) < Len(migrations_to_fix)

====
